---- MODULE Spec2Model ----
(***************************************************************************)
(* A model of cpp_code_reviewer.py: the pattern scanner                    *)
(* (detect_common_patterns), the snippet extractor (extract_code_snippet), *)
(* the built-in explanation lookup (get_built_in_explanation), the remote  *)
(* enrichment (analyze_code_with_openai), the formatter                    *)
(* (format_review_results) and the program around them (the module-level   *)
(* API key check and main).                                                *)
(*                                                                         *)
(* Text.  A source text is a sequence of tokens.  A token is a fragment of *)
(* C++ text holding no line break, or the line break NL itself;            *)
(* consecutive tokens of a line are separated by one blank.  The           *)
(* regular expressions of the pattern table are evaluated on a line's      *)
(* tokens: Fragments(tok) names the sub-expressions a token matches, and   *)
(* re_search puts them together with each expression's lookahead.          *)
(*                                                                         *)
(* JSON.  A value decoded from a remote response is a tagged record        *)
(* [t, n, s]: t is "int", "str" or "null", n the number, s the string.     *)
(* A dict the program builds (an issue) is a record whose DOMAIN is the    *)
(* dict's key set.                                                         *)
(***************************************************************************)
EXTENDS Integers, Sequences, FiniteSets

VARIABLES
    pc,              \* where the program (or the call under test) stands
    OPENAI_API_KEY,  \* the environment variable read at line 20
    file,            \* the file named by --file: [readable, content]
    source_code,     \* main's source_code
    issues,          \* main's list `issues`, the object analyze mutates
    scanned,         \* the value detect_common_patterns returned
    enhanced_issues, \* the value analyze_code_with_openai returned
    stderr,          \* the diagnostic lines analyze_code_with_openai printed
    remote_calls,    \* how many chat.completions.create calls were made
    output,          \* what main printed or wrote
    call             \* the arguments and result of a function called alone

vars == <<pc, OPENAI_API_KEY, file, source_code, issues, scanned,
          enhanced_issues, stderr, remote_calls, output, call>>

-----------------------------------------------------------------------------
(* Bounds of the model. *)

\* Longest text, in tokens, given to the scanner alone.
MaxLen == 3

\* Longest file, in tokens, given to the whole program.
MaxPipeLen == 3

\* Longest text, in tokens, given to the snippet extractor alone.
MaxSnippetLen == 4

\* Largest context_lines given to the snippet extractor alone.
MaxContext == 3

\* Most items in the list a remote whole-file analysis returns.
MaxAiItems == 2

\* The longest list of issues given to analyze_code_with_openai called alone.
MaxGivenIssues == 2

-----------------------------------------------------------------------------
(* Values. *)

Max(a, b) == IF a >= b THEN a ELSE b

Min(a, b) == IF a <= b THEN a ELSE b

JInt(k) == [t |-> "int", n |-> k, s |-> ""]

JStr(x) == [t |-> "str", n |-> 0, s |-> x]

JNull == [t |-> "null", n |-> 0, s |-> ""]

\* Python's None, the value of an unset environment variable.
None == "None"

NL == "\n"

\* Every sequence over S of length at most n.
SeqUpTo(S, n) == UNION {[1..k -> S] : k \in 0..n}

-----------------------------------------------------------------------------
(* class Severity, class IssueType *)

Severity ==
    [ERROR |-> "ERROR", WARNING |-> "WARNING", INFO |-> "INFO",
     OPTIMIZATION |-> "OPTIMIZATION"]

IssueType ==
    [MEMORY_LEAK |-> "Memory Leak",
     NULL_POINTER |-> "Null Pointer Dereference",
     UNINITIALIZED_VAR |-> "Uninitialized Variable",
     RESOURCE_LEAK |-> "Resource Leak",
     BUFFER_OVERFLOW |-> "Buffer Overflow",
     DEAD_CODE |-> "Dead Code",
     STYLE_VIOLATION |-> "Style Violation",
     PERFORMANCE_ISSUE |-> "Performance Issue",
     CONCURRENCY_ISSUE |-> "Concurrency Issue",
     OTHER_ |-> "Other Issue"]   \* OTHER (a reserved word of TLA+)

\* The ten values of the IssueType enumeration.
IssueTypes == {IssueType[k] : k \in DOMAIN IssueType}

-----------------------------------------------------------------------------
(* str.split('\n') *)

RECURSIVE SplitFrom(_, _, _, _)
\* lines: the pieces closed so far; cur: the piece being read.
SplitFrom(text, i, lines, cur) ==
    IF i > Len(text) THEN Append(lines, cur)
    ELSE IF text[i] = NL THEN SplitFrom(text, i + 1, Append(lines, cur), <<>>)
    ELSE SplitFrom(text, i + 1, lines, Append(cur, text[i]))

\* source_code.split('\n'): one piece more than the text has line breaks.
Split(text) == SplitFrom(text, 1, <<>>, <<>>)

-----------------------------------------------------------------------------
(* extract_code_snippet *)

\* What a call returns: a value, or an exception raised.
Returned(v) == [raised |-> FALSE, value |-> v]

Raised == [raised |-> TRUE, value |-> <<>>]

\* One rendered line, f"{i}: " + ("→ " if i == line_num else "  ") + text.
RenderLine(i, line_num, text) ==
    [number |-> i, marker |-> IF i = line_num THEN "→ " ELSE "  ",
     text |-> text]

RECURSIVE SnippetLoop(_, _, _, _, _)
\* for i in range(start_line, end_line + 1), from i on.
SnippetLoop(lines, line_num, i, end_line, snippet) ==
    IF i > end_line THEN snippet
    ELSE SnippetLoop(lines, line_num, i + 1, end_line,
                     IF i - 1 < Len(lines)
                     THEN Append(snippet, RenderLine(i, line_num, lines[i]))
                     ELSE snippet)

\* A faulty variant: a marker put on the first line of the window.
extract_code_snippet_marks_first(source_code_, line_num, context_lines) ==
    IF line_num.t # "int" THEN Raised
    ELSE LET lines == Split(source_code_)
             start_line == Max(1, line_num.n - context_lines)
             end_line == Min(Len(lines), line_num.n + context_lines)
         IN  Returned(SnippetLoop(lines, start_line, start_line, end_line, <<>>))

\* line_num is a JSON value: the arithmetic of lines 80-81 raises TypeError
\* on one that is no number.  The result is the sequence of rendered lines
\* that '\n'.join puts together.
extract_code_snippet(source_code_, line_num, context_lines) ==
    IF line_num.t # "int" THEN Raised
    ELSE LET lines == Split(source_code_)
             start_line == Max(1, line_num.n - context_lines)
             end_line == Min(Len(lines), line_num.n + context_lines)
         IN  Returned(SnippetLoop(lines, line_num.n, start_line, end_line, <<>>))

\* The default of the parameter context_lines.
DefaultContextLines == 2

-----------------------------------------------------------------------------
(* get_built_in_explanation *)

\* Each text of the tables is named by a short string: the texts are
\* pairwise different, and nothing reads inside one.
default_explanation == "default explanation"

default_recommendation == "default recommendation"

\* A faulty variant: a category table that lost its Buffer Overflow entry.
explanations_without_buffer_overflow ==
    [c \in {IssueType.MEMORY_LEAK, IssueType.UNINITIALIZED_VAR,
            IssueType.RESOURCE_LEAK, IssueType.NULL_POINTER,
            IssueType.STYLE_VIOLATION, IssueType.PERFORMANCE_ISSUE,
            IssueType.DEAD_CODE} |->
        CASE c = IssueType.MEMORY_LEAK ->
               [explanation |-> "explanation: memory leak",
                recommendation |-> "recommendation: memory leak"]
          [] c = IssueType.UNINITIALIZED_VAR ->
               [explanation |-> "explanation: uninitialized variable",
                recommendation |-> "recommendation: uninitialized variable"]
          [] c = IssueType.RESOURCE_LEAK ->
               [explanation |-> "explanation: resource leak",
                recommendation |-> "recommendation: resource leak"]
          [] c = IssueType.NULL_POINTER ->
               [explanation |-> "explanation: null pointer",
                recommendation |-> "recommendation: null pointer"]
          [] c = IssueType.STYLE_VIOLATION ->
               [explanation |-> "explanation: style violation",
                recommendation |-> "recommendation: style violation"]
          [] c = IssueType.PERFORMANCE_ISSUE ->
               [explanation |-> "explanation: performance issue",
                recommendation |-> "recommendation: performance issue"]
          [] c = IssueType.DEAD_CODE ->
               [explanation |-> "explanation: dead code",
                recommendation |-> "recommendation: dead code"]]

\* The dict `explanations`: eight of the ten issue types are keys.
explanations ==
    [c \in {IssueType.MEMORY_LEAK, IssueType.UNINITIALIZED_VAR,
            IssueType.BUFFER_OVERFLOW, IssueType.RESOURCE_LEAK,
            IssueType.NULL_POINTER, IssueType.STYLE_VIOLATION,
            IssueType.PERFORMANCE_ISSUE, IssueType.DEAD_CODE} |->
        CASE c = IssueType.MEMORY_LEAK ->
               [explanation |-> "explanation: memory leak",
                recommendation |-> "recommendation: memory leak"]
          [] c = IssueType.UNINITIALIZED_VAR ->
               [explanation |-> "explanation: uninitialized variable",
                recommendation |-> "recommendation: uninitialized variable"]
          [] c = IssueType.BUFFER_OVERFLOW ->
               [explanation |-> "explanation: buffer overflow",
                recommendation |-> "recommendation: buffer overflow"]
          [] c = IssueType.RESOURCE_LEAK ->
               [explanation |-> "explanation: resource leak",
                recommendation |-> "recommendation: resource leak"]
          [] c = IssueType.NULL_POINTER ->
               [explanation |-> "explanation: null pointer",
                recommendation |-> "recommendation: null pointer"]
          [] c = IssueType.STYLE_VIOLATION ->
               [explanation |-> "explanation: style violation",
                recommendation |-> "recommendation: style violation"]
          [] c = IssueType.PERFORMANCE_ISSUE ->
               [explanation |-> "explanation: performance issue",
                recommendation |-> "recommendation: performance issue"]
          [] c = IssueType.DEAD_CODE ->
               [explanation |-> "explanation: dead code",
                recommendation |-> "recommendation: dead code"]]

\* The messages of the pattern table that are keys of pattern_explanations.
MsgUsingNamespace ==
    "Using directive brings all names from namespace 'std' into global namespace"

MsgCharArray ==
    "Consider using std::string instead of C-style character arrays"

MsgDefine ==
    "Consider using constexpr or const instead of #define for constants"

\* The dict `pattern_explanations`.
pattern_explanations ==
    [m \in {MsgUsingNamespace, MsgCharArray, MsgDefine} |->
        CASE m = MsgUsingNamespace ->
               [explanation |-> "explanation: using namespace std",
                recommendation |-> "recommendation: use qualified names"]
          [] m = MsgCharArray ->
               [explanation |-> "explanation: C-style character array",
                recommendation |-> "recommendation: use std::string"]
          [] m = MsgDefine ->
               [explanation |-> "explanation: #define constant",
                recommendation |-> "recommendation: use constexpr or const"]]

\* A faulty variant: a lookup that tries the category before the message.
get_built_in_explanation_category_first(issue_type, message) ==
    IF issue_type \in DOMAIN explanations
    THEN <<explanations[issue_type].explanation,
           explanations[issue_type].recommendation>>
    ELSE IF message \in DOMAIN pattern_explanations
    THEN <<pattern_explanations[message].explanation,
           pattern_explanations[message].recommendation>>
    ELSE <<default_explanation, default_recommendation>>

\* A faulty variant: a lookup whose category fallback knows Memory Leak only.
get_built_in_explanation_memory_leak_only(issue_type, message) ==
    IF message \in DOMAIN pattern_explanations
    THEN <<pattern_explanations[message].explanation,
           pattern_explanations[message].recommendation>>
    ELSE IF issue_type = IssueType.MEMORY_LEAK
    THEN <<explanations[issue_type].explanation,
           explanations[issue_type].recommendation>>
    ELSE <<default_explanation, default_recommendation>>

get_built_in_explanation(issue_type, message) ==
    IF message \in DOMAIN pattern_explanations
    THEN <<pattern_explanations[message].explanation,
           pattern_explanations[message].recommendation>>
    ELSE IF issue_type \in DOMAIN explanations
    THEN <<explanations[issue_type].explanation,
           explanations[issue_type].recommendation>>
    ELSE <<default_explanation, default_recommendation>>

-----------------------------------------------------------------------------
(* The regular expressions of the pattern table, on tokens. *)

ReNew == "\\bnew\\b(?!.*\\bdelete\\b)"

ReMalloc == "\\bmalloc\\b(?!.*\\bfree\\b)"

ReUsing == "using\\s+namespace\\s+std\\s*;"

ReDefine == "#define\\s+[A-Z_]+\\s+\\d+"

ReCharArray == "char\\s+\\w+\\s*\\[\\s*\\d+\\s*\\]"

ReWhileTrue == "while\\s*\\(\\s*1\\s*\\)|while\\s*\\(\\s*true\\s*\\)"

ReIfAssign == "if\\s*\\([^)]*=[^)]*\\)"

ReGoto == "goto\\s+\\w+"

ReUnsafeStr == "strcpy|strcat|sprintf|gets"

ReIntDecl == "int\\s+\\w+\\s*;(?!\\s*=)"

ReVectorInit == "std::vector<\\w+>\\s+\\w+\\s*\\([^)]*\\)(?!\\s*\\{)"

ReCatchAll == "catch\\s*\\(\\s*\\.\\.\\.\\s*\\)"

\* The tokens the checked texts are made of, NL apart.
Tokens ==
    {"new", "delete", "malloc(n)", "free(p);", "if(p=malloc(n))",
     "using namespace std;", "#define MAX 100", "char buf[10];", "while(1)",
     "if(x=5)", "goto end;", "strcpy(buf,s);", "int x;", "= 0;",
     "std::vector<int> v(10)", "{", "catch(...)", "y"}

\* The sub-expressions a token matches: an expression of the table without
\* its lookahead, or the body of a lookahead ("\\s*=" and "\\s*\\{" match at
\* the start of the token that follows the match; "\\bdelete\\b" and
\* "\\bfree\\b" anywhere after it).  No expression matches across two of
\* these tokens, and none matches inside a token not listed for it.
Fragments(tok) ==
    CASE tok = "new" -> {"\\bnew\\b"}
      [] tok = "delete" -> {"\\bdelete\\b"}
      [] tok = "malloc(n)" -> {"\\bmalloc\\b"}
      [] tok = "free(p);" -> {"\\bfree\\b"}
      [] tok = "if(p=malloc(n))" -> {"\\bmalloc\\b", ReIfAssign}
      [] tok = "using namespace std;" -> {ReUsing}
      [] tok = "#define MAX 100" -> {ReDefine}
      [] tok = "char buf[10];" -> {ReCharArray}
      [] tok = "while(1)" -> {ReWhileTrue}
      [] tok = "if(x=5)" -> {ReIfAssign}
      [] tok = "goto end;" -> {ReGoto}
      [] tok = "strcpy(buf,s);" -> {ReUnsafeStr}
      [] tok = "int x;" -> {"int\\s+\\w+\\s*;"}
      [] tok = "= 0;" -> {"\\s*="}
      [] tok = "std::vector<int> v(10)" ->
             {"std::vector<\\w+>\\s+\\w+\\s*\\([^)]*\\)"}
      [] tok = "{" -> {"\\s*\\{"}
      [] OTHER -> {}

\* Some token of the line matches `frag`.
Contains(line, frag) == \E i \in 1..Len(line) : frag \in Fragments(line[i])

\* A faulty variant: a lookahead that looks at the whole line, before the
\* match as well as after it.
NotFollowedLater_whole_line(line, frag, later) ==
    /\ \E i \in 1..Len(line) : frag \in Fragments(line[i])
    /\ \A j \in 1..Len(line) : later \notin Fragments(line[j])

\* Some token matches `frag` and no token after it matches `later`:
\* frag(?!.*later).
NotFollowedLater(line, frag, later) ==
    \E i \in 1..Len(line) :
        /\ frag \in Fragments(line[i])
        /\ \A j \in (i + 1)..Len(line) : later \notin Fragments(line[j])

\* Some token matches `frag` and the token next to it does not match
\* `next`: frag(?!next).
NotFollowedNext(line, frag, next) ==
    \E i \in 1..Len(line) :
        /\ frag \in Fragments(line[i])
        /\ ~(i < Len(line) /\ next \in Fragments(line[i + 1]))

\* re.search(pattern, line) is not None.
re_search(pattern, line) ==
    CASE pattern = ReNew ->
           NotFollowedLater(line, "\\bnew\\b", "\\bdelete\\b")
      [] pattern = ReMalloc ->
           NotFollowedLater(line, "\\bmalloc\\b", "\\bfree\\b")
      [] pattern = ReIntDecl ->
           NotFollowedNext(line, "int\\s+\\w+\\s*;", "\\s*=")
      [] pattern = ReVectorInit ->
           NotFollowedNext(line, "std::vector<\\w+>\\s+\\w+\\s*\\([^)]*\\)",
                           "\\s*\\{")
      [] OTHER -> Contains(line, pattern)

-----------------------------------------------------------------------------
(* detect_common_patterns *)

Rule(pattern, issue_type, severity, message) ==
    [pattern |-> pattern, type |-> issue_type, severity |-> severity,
     message |-> message]

\* The list `patterns`.
patterns ==
    <<Rule(ReNew, IssueType.MEMORY_LEAK, Severity.WARNING,
           "Potential memory leak: 'new' used without matching 'delete'"),
      Rule(ReMalloc, IssueType.MEMORY_LEAK, Severity.WARNING,
           "Potential memory leak: 'malloc' used without matching 'free'"),
      Rule(ReUsing, IssueType.STYLE_VIOLATION, Severity.INFO,
           MsgUsingNamespace),
      Rule(ReDefine, IssueType.STYLE_VIOLATION, Severity.INFO, MsgDefine),
      Rule(ReCharArray, IssueType.STYLE_VIOLATION, Severity.INFO,
           MsgCharArray),
      Rule(ReWhileTrue, IssueType.STYLE_VIOLATION, Severity.INFO,
           "Infinite loop detected - ensure there's a proper exit condition"),
      Rule(ReIfAssign, IssueType.STYLE_VIOLATION, Severity.WARNING,
           "Assignment in conditional expression - possible mistake (did you mean == instead of =?)"),
      Rule(ReGoto, IssueType.STYLE_VIOLATION, Severity.INFO,
           "Goto statements make code harder to understand and maintain"),
      Rule(ReUnsafeStr, IssueType.BUFFER_OVERFLOW, Severity.WARNING,
           "Unsafe string functions can lead to buffer overflows"),
      Rule(ReIntDecl, IssueType.UNINITIALIZED_VAR, Severity.WARNING,
           "Uninitialized variable declaration"),
      Rule(ReVectorInit, IssueType.STYLE_VIOLATION, Severity.INFO,
           "Consider using uniform initialization with curly braces"),
      Rule(ReCatchAll, IssueType.STYLE_VIOLATION, Severity.WARNING,
           "Catching all exceptions may hide bugs, consider catching specific exception types")>>

\* A faulty variant: an issue of the scan without its explanation.
NewIssue_without_explanation(source_code_, line_num, r) ==
    LET pair == get_built_in_explanation(patterns[r].type, patterns[r].message)
    IN  [type |-> patterns[r].type,
         severity |-> patterns[r].severity,
         message |-> patterns[r].message,
         line |-> JInt(line_num),
         code_snippet |->
             extract_code_snippet(source_code_, JInt(line_num),
                                  DefaultContextLines).value,
         recommendation |-> JStr(pair[2])]

\* A faulty variant: an issue of the scan without its recommendation, as the
\* prompt of the per-issue call expects it.
NewIssue_without_recommendation(source_code_, line_num, r) ==
    LET pair == get_built_in_explanation(patterns[r].type, patterns[r].message)
    IN  [type |-> patterns[r].type,
         severity |-> patterns[r].severity,
         message |-> patterns[r].message,
         line |-> JInt(line_num),
         code_snippet |->
             extract_code_snippet(source_code_, JInt(line_num),
                                  DefaultContextLines).value,
         explanation |-> JStr(pair[1])]

\* The dict appended at lines 323-331 for rule r matching line line_num.
NewIssue(source_code_, line_num, r) ==
    LET pair == get_built_in_explanation(patterns[r].type, patterns[r].message)
    IN  [type |-> patterns[r].type,
         severity |-> patterns[r].severity,
         message |-> patterns[r].message,
         line |-> JInt(line_num),
         code_snippet |->
             extract_code_snippet(source_code_, JInt(line_num),
                                  DefaultContextLines).value,
         explanation |-> JStr(pair[1]),
         recommendation |-> JStr(pair[2])]

RECURSIVE ScanRules(_, _, _, _, _)
\* for pattern, issue_type, severity, message in patterns, from rule r on.
ScanRules(source_code_, lines, line_num, r, found) ==
    IF r > Len(patterns) THEN found
    ELSE ScanRules(source_code_, lines, line_num, r + 1,
                   IF re_search(patterns[r].pattern, lines[line_num])
                   THEN Append(found, NewIssue(source_code_, line_num, r))
                   ELSE found)

RECURSIVE ScanLines(_, _, _, _)
\* for line_num, line in enumerate(lines, 1), from line line_num on.
ScanLines(source_code_, lines, line_num, found) ==
    IF line_num > Len(lines) THEN found
    ELSE ScanLines(source_code_, lines, line_num + 1,
                   ScanRules(source_code_, lines, line_num, 1, found))

RECURSIVE ScanRulesFirstOnly(_, _, _, _, _)
ScanRulesFirstOnly(source_code_, lines, line_num, r, found) ==
    IF r > Len(patterns) THEN found
    ELSE IF re_search(patterns[r].pattern, lines[line_num])
    THEN Append(found, NewIssue(source_code_, line_num, r))
    ELSE ScanRulesFirstOnly(source_code_, lines, line_num, r + 1, found)

RECURSIVE ScanLinesFirstOnly(_, _, _, _)
ScanLinesFirstOnly(source_code_, lines, line_num, found) ==
    IF line_num > Len(lines) THEN found
    ELSE ScanLinesFirstOnly(source_code_, lines, line_num + 1,
                            ScanRulesFirstOnly(source_code_, lines, line_num,
                                               1, found))

\* A faulty variant: a scan that leaves a line at its first matching rule.
detect_common_patterns_first_match_only(source_code_) ==
    ScanLinesFirstOnly(source_code_, Split(source_code_), 1, <<>>)

RECURSIVE ScanLinesOfRule(_, _, _, _, _)
ScanLinesOfRule(source_code_, lines, line_num, r, found) ==
    IF line_num > Len(lines) THEN found
    ELSE ScanLinesOfRule(source_code_, lines, line_num + 1, r,
                         IF re_search(patterns[r].pattern, lines[line_num])
                         THEN Append(found, NewIssue(source_code_, line_num, r))
                         ELSE found)

RECURSIVE ScanRulesOuter(_, _, _, _)
ScanRulesOuter(source_code_, lines, r, found) ==
    IF r > Len(patterns) THEN found
    ELSE ScanRulesOuter(source_code_, lines, r + 1,
                        ScanLinesOfRule(source_code_, lines, 1, r, found))

\* A faulty variant: a scan whose outer loop is over the rules.
detect_common_patterns_rule_major(source_code_) ==
    ScanRulesOuter(source_code_, Split(source_code_), 1, <<>>)

RECURSIVE ShiftLines(_, _)
ShiftLines(found, i) ==
    IF i > Len(found) THEN found
    ELSE ShiftLines([found EXCEPT ![i].line = JInt(found[i].line.n - 1)], i + 1)

\* A faulty variant: a scan that numbers the lines from 0 (enumerate(lines)).
detect_common_patterns_zero_based(source_code_) ==
    ShiftLines(ScanLines(source_code_, Split(source_code_), 1, <<>>), 1)

\* A faulty variant: a scan that appends to the list an earlier call left
\* (a list kept between calls, as a module-level `issues` or a default
\* argument `issues=[]` would be).
detect_common_patterns_shared_list(source_code_) ==
    ScanLines(source_code_, Split(source_code_), 1, issues)

detect_common_patterns(source_code_) ==
    ScanLines(source_code_, Split(source_code_), 1, <<>>)

-----------------------------------------------------------------------------
(* The remote service: what openai.chat.completions.create and json.loads   *)
(* can give analyze_code_with_openai.                                       *)

\* An item of the list the whole-file analysis returns: a JSON object with
\* the keys `keys` (is_dict), or a value that is no object.  type, severity
\* and message are strings when present: the program only copies and prints
\* them.  line and recommendation are any JSON value.
AiItem(is_dict, keys, type, severity, message, line, recommendation) ==
    [is_dict |-> is_dict, keys |-> keys, type |-> type,
     severity |-> severity, message |-> message, line |-> line,
     recommendation |-> recommendation]

AllKeys == {"type", "severity", "message", "line", "recommendation"}

AiItems ==
    {AiItem(FALSE, {}, "", "", "", JNull, JNull),
     AiItem(TRUE, {}, "", "", "", JNull, JNull),
     AiItem(TRUE, AllKeys, "Memory Leak", "ERROR", "Leaked buffer",
            JInt(1), JStr("Use std::unique_ptr")),
     AiItem(TRUE, AllKeys, "Security", "WARNING", "Unchecked input",
            JInt(2), JStr("Validate the input")),
     AiItem(TRUE, AllKeys \ {"recommendation"}, "Security", "INFO",
            "Whole file", JInt(0), JNull),
     AiItem(TRUE, AllKeys, "Style Violation", "INFO", "Long function",
            JStr("3-5"), JStr("Split the function")),
     AiItem(TRUE, AllKeys, "Performance Issue", "OPTIMIZATION",
            "Copy in loop", JInt(1), JNull)}

\* ai_issue.get(key, default)
ItemGet(item, key, default) == IF key \in item.keys THEN item[key] ELSE default

\* What the whole-file call gives.  outcome: "raise" (create raises),
\* "bad json" (json.loads raises) or "json"; then is_dict and has_issues say
\* whether ai_analysis is a dict and has the key "issues", and value_kind
\* what the value of that key (or ai_analysis itself, when it is no dict)
\* is: a "list" of items, a "string", or a "number" (which no for loop
\* iterates).
Response(outcome, is_dict, has_issues, value_kind, items) ==
    [outcome |-> outcome, is_dict |-> is_dict, has_issues |-> has_issues,
     value_kind |-> value_kind, items |-> items]

Responses ==
    {Response("raise", FALSE, FALSE, "list", <<>>),
     Response("bad json", FALSE, FALSE, "list", <<>>),
     Response("json", TRUE, FALSE, "list", <<>>),
     Response("json", TRUE, TRUE, "number", <<>>),
     Response("json", TRUE, TRUE, "string", <<>>),
     Response("json", FALSE, FALSE, "number", <<>>)}
    \cup {Response("json", d, d, "list", items) :
            d \in BOOLEAN, items \in SeqUpTo(AiItems, MaxAiItems)}

\* What a per-issue call gives: "raise", "bad json", or a JSON value that is
\* a dict with the keys `keys` or no dict at all.
Explanation(outcome, is_dict, keys, explanation, recommendation) ==
    [outcome |-> outcome, is_dict |-> is_dict, keys |-> keys,
     explanation |-> explanation, recommendation |-> recommendation]

Explanations ==
    {Explanation("raise", FALSE, {}, JNull, JNull),
     Explanation("json", FALSE, {}, JNull, JNull),
     Explanation("json", TRUE, {}, JNull, JNull),
     Explanation("json", TRUE, {"explanation"}, JStr("AI explanation"), JNull),
     Explanation("json", TRUE, {"explanation", "recommendation"},
                 JStr("AI explanation"), JStr("AI recommendation"))}

-----------------------------------------------------------------------------
(* analyze_code_with_openai *)

\* The dict appended at lines 406-413.
AiIssue(item, snippet) ==
    [type |-> ItemGet(item, "type", IssueType.OTHER_),
     severity |-> ItemGet(item, "severity", Severity.INFO),
     message |-> ItemGet(item, "message", "Issue detected"),
     line |-> ItemGet(item, "line", JInt(0)),
     code_snippet |-> snippet,
     recommendation |->
         ItemGet(item, "recommendation", JStr("No specific recommendation"))]

RECURSIVE ProcessAiIssues(_, _, _, _)
\* for ai_issue in ai_issues, from item i on: the list `issues` as the loop
\* leaves it, and whether the loop raised.
ProcessAiIssues(source_code_, issues_, items, i) ==
    IF i > Len(items) THEN [issues |-> issues_, raised |-> FALSE]
    ELSE IF ~items[i].is_dict
    THEN ProcessAiIssues(source_code_, issues_, items, i + 1)
    ELSE LET snippet ==
                 extract_code_snippet(source_code_,
                                      ItemGet(items[i], "line", JInt(1)),
                                      DefaultContextLines)
         IN  IF snippet.raised
             THEN [issues |-> issues_, raised |-> TRUE]
             ELSE ProcessAiIssues(source_code_,
                                  Append(issues_,
                                         AiIssue(items[i], snippet.value)),
                                  items, i + 1)

RECURSIVE ProcessAiIssuesAtFront(_, _, _, _)
ProcessAiIssuesAtFront(source_code_, issues_, items, i) ==
    IF i > Len(items) THEN [issues |-> issues_, raised |-> FALSE]
    ELSE IF ~items[i].is_dict
    THEN ProcessAiIssuesAtFront(source_code_, issues_, items, i + 1)
    ELSE LET snippet ==
                 extract_code_snippet(source_code_,
                                      ItemGet(items[i], "line", JInt(1)),
                                      DefaultContextLines)
         IN  IF snippet.raised
             THEN [issues |-> issues_, raised |-> TRUE]
             ELSE ProcessAiIssuesAtFront(
                      source_code_,
                      <<AiIssue(items[i], snippet.value)>> \o issues_,
                      items, i + 1)

\* A faulty variant: a whole-file analysis that puts its issues first
\* (issues.insert(0, ...)).
WholeFileAnalysisAtFront(source_code_, issues_, response) ==
    IF response.outcome # "json" THEN [issues |-> issues_, raised |-> TRUE]
    ELSE IF response.is_dict /\ ~response.has_issues
    THEN [issues |-> issues_, raised |-> FALSE]
    ELSE IF response.value_kind = "number"
    THEN [issues |-> issues_, raised |-> TRUE]
    ELSE IF response.value_kind = "string"
    THEN [issues |-> issues_, raised |-> FALSE]
    ELSE ProcessAiIssuesAtFront(source_code_, issues_, response.items, 1)

\* The try block of lines 386-413: the list `issues` after it, and whether
\* the except clause of line 414 was entered.
WholeFileAnalysis(source_code_, issues_, response) ==
    IF response.outcome # "json" THEN [issues |-> issues_, raised |-> TRUE]
    ELSE IF response.is_dict /\ ~response.has_issues
    THEN [issues |-> issues_, raised |-> FALSE]       \* .get("issues", [])
    ELSE IF response.value_kind = "number"
    THEN [issues |-> issues_, raised |-> TRUE]        \* not iterable
    ELSE IF response.value_kind = "string"
    THEN [issues |-> issues_, raised |-> FALSE]       \* no item is a dict
    ELSE ProcessAiIssues(source_code_, issues_, response.items, 1)

\* The number of issues the loop of line 420 sends to the remote service.
RECURSIVE NeedsCall(_, _)
NeedsCall(issues_, i) ==
    IF i > Len(issues_) THEN 0
    ELSE (IF "recommendation" \in DOMAIN issues_[i] THEN 0 ELSE 1)
         + NeedsCall(issues_, i + 1)

\* issue["explanation"] = e; issue["recommendation"] = r
WithExplanation(issue, e, r) ==
    [k \in DOMAIN issue \cup {"explanation", "recommendation"} |->
        IF k = "explanation" THEN e
        ELSE IF k = "recommendation" THEN r
        ELSE issue[k]]

\* Lines 426-464 for one issue and the answer `answer` of its remote call.
\* An answer that is no dict makes explanation_data.get raise, which the
\* except clause of line 460 handles like a failed call.  The issues given
\* all have the keys the prompt of lines 427-441 reads.
EnhanceIssue(issue, answer) ==
    IF answer.outcome = "json" /\ answer.is_dict
    THEN WithExplanation(
             issue,
             IF "explanation" \in answer.keys THEN answer.explanation
             ELSE JStr("No explanation available"),
             IF "recommendation" \in answer.keys THEN answer.recommendation
             ELSE JStr("No recommendation available"))
    ELSE WithExplanation(
             issue,
             JStr("Could not generate detailed explanation due to API error."),
             JStr("No specific recommendation available."))

RECURSIVE EnhanceLoop_completes_skipped(_, _, _, _, _)
\* A faulty variant: a loop that gives an issue it skips the explanation it
\* lacks.
EnhanceLoop_completes_skipped(issues_, i, answers, used, acc) ==
    IF i > Len(issues_) THEN acc
    ELSE IF "recommendation" \in DOMAIN issues_[i]
    THEN EnhanceLoop_completes_skipped(
             issues_, i + 1, answers, used,
             [acc EXCEPT !.enhanced_issues =
                 Append(@, IF "explanation" \in DOMAIN issues_[i]
                           THEN issues_[i]
                           ELSE WithExplanation(
                                    issues_[i],
                                    JStr("No explanation available"),
                                    issues_[i].recommendation))])
    ELSE LET answer == answers[used + 1]
             failed == ~(answer.outcome = "json" /\ answer.is_dict)
         IN  EnhanceLoop_completes_skipped(
                 issues_, i + 1, answers, used + 1,
                 [enhanced_issues |->
                      Append(acc.enhanced_issues,
                             EnhanceIssue(issues_[i], answer)),
                  stderr |->
                      IF failed
                      THEN Append(acc.stderr,
                                  "Warning: Failed to enhance issue explanation")
                      ELSE acc.stderr,
                  calls |-> acc.calls + 1])

RECURSIVE EnhanceLoop(_, _, _, _, _)
\* for issue in issues, from issue i on; `answers` are the answers of the
\* remote calls in the order they are made, `used` of them already taken.
EnhanceLoop(issues_, i, answers, used, acc) ==
    IF i > Len(issues_) THEN acc
    ELSE IF "recommendation" \in DOMAIN issues_[i]
    THEN EnhanceLoop(issues_, i + 1, answers, used,
                     [acc EXCEPT !.enhanced_issues = Append(@, issues_[i])])
    ELSE LET answer == answers[used + 1]
             failed == ~(answer.outcome = "json" /\ answer.is_dict)
         IN  EnhanceLoop(
                 issues_, i + 1, answers, used + 1,
                 [enhanced_issues |->
                      Append(acc.enhanced_issues,
                             EnhanceIssue(issues_[i], answer)),
                  stderr |->
                      IF failed
                      THEN Append(acc.stderr,
                                  "Warning: Failed to enhance issue explanation")
                      ELSE acc.stderr,
                  calls |-> acc.calls + 1])

\* What a call leaves: the value returned, the list passed as `issues`
\* (appended to in place; its dicts are the ones the returned list holds),
\* the lines printed to stderr and the number of remote calls made.
\* `first` is the state after the try block of the whole-file analysis.  No
\* statement of the outer try block raises outside the two inner ones, so
\* the except clause of line 470 is never entered.
AnalyzeFrom(api_key, issues_, first, answers) ==
    IF api_key = None
    THEN [value |-> issues_, issues |-> issues_,
          stderr |-> <<"Analyzing code with AI...",
                       "Error: OpenAI API key is not available.",
                       "Please set the OPENAI_API_KEY environment variable and try again.">>,
          calls |-> 0]
    ELSE LET loop ==
                 EnhanceLoop(
                     first.issues, 1, answers, 0,
                     [enhanced_issues |-> <<>>,
                      stderr |->
                          IF first.raised
                          THEN <<"Analyzing code with AI...",
                                 "Warning: Full code analysis failed",
                                 "Continuing with pattern-based analysis only.">>
                          ELSE <<"Analyzing code with AI...">>,
                      calls |-> 1])
         IN  [value |-> loop.enhanced_issues,
              issues |-> loop.enhanced_issues,
              stderr |-> loop.stderr,
              calls |-> loop.calls]

\* A faulty variant: an enrichment whose whole-file issues go to the front.
analyze_code_with_openai_at_front(api_key, source_code_, issues_, response, answers) ==
    AnalyzeFrom(api_key, issues_,
                WholeFileAnalysisAtFront(source_code_, issues_, response),
                answers)

\* analyze_code_with_openai(source_code, issues) with the module's
\* OPENAI_API_KEY, the answer of the whole-file call and the answers of the
\* per-issue calls.
analyze_code_with_openai(api_key, source_code_, issues_, response, answers) ==
    AnalyzeFrom(api_key, issues_,
                WholeFileAnalysis(source_code_, issues_, response), answers)

-----------------------------------------------------------------------------
(* format_review_results *)

RECURSIVE CountSeverity(_, _, _)
\* sum(1 for issue in issues if issue["severity"] == severity), from i on.
CountSeverity(issues_, severity, i) ==
    IF i > Len(issues_) THEN 0
    ELSE (IF issues_[i].severity = severity THEN 1 ELSE 0)
         + CountSeverity(issues_, severity, i + 1)

\* The lines appended for issue i at lines 512-536: what is printed of it.
Detail(issue, i) ==
    [index |-> i, printed |-> issue]

\* The text built: the summary counts and one block of lines per issue.
Review(issues_) ==
    [no_issues |-> Len(issues_) = 0,
     errors |-> CountSeverity(issues_, Severity.ERROR, 1),
     warnings |-> CountSeverity(issues_, Severity.WARNING, 1),
     information |-> CountSeverity(issues_, Severity.INFO, 1),
     optimizations |-> CountSeverity(issues_, Severity.OPTIMIZATION, 1),
     total |-> Len(issues_),
     details |-> [i \in 1..Len(issues_) |-> Detail(issues_[i], i)]]

\* "\n".join(result) raises TypeError when an element of result is no
\* string: code_snippet is one always, explanation and recommendation are
\* whatever JSON value the remote service gave.
JoinRaises(issues_) ==
    \E i \in 1..Len(issues_) :
        \E k \in {"explanation", "recommendation"} \cap DOMAIN issues_[i] :
            issues_[i][k].t # "str"

format_review_results(issues_) ==
    IF Len(issues_) # 0 /\ JoinRaises(issues_) THEN Raised
    ELSE Returned(Review(issues_))

-----------------------------------------------------------------------------
(* The program. *)

\* The file's tokens when the whole program runs.
PipeTokens == {"new", "char buf[10];", "y", NL}

PipeTexts == SeqUpTo(PipeTokens, MaxPipeLen)

NoFile == [readable |-> FALSE, content |-> <<>>]

NoOutput == [channel |-> "none", text |-> Review(<<>>)]

NoCall == [fn |-> "none"]

Init ==
    /\ pc = "import"
    /\ OPENAI_API_KEY \in {None, "sk-key"}
    /\ file \in {NoFile} \cup {[readable |-> TRUE, content |-> T] : T \in PipeTexts}
    /\ source_code = <<>>
    /\ issues = <<>>
    /\ scanned = <<>>
    /\ enhanced_issues = <<>>
    /\ stderr = <<>>
    /\ remote_calls = 0
    /\ output = NoOutput
    /\ call = NoCall

\* Lines 20-26: the module leaves with status 1 when the key is not set.
\* The two lines it prints then are no review, and `output` keeps none.
ImportModule ==
    /\ pc = "import"
    /\ pc' = IF OPENAI_API_KEY = None THEN "exit: no API key" ELSE "main"
    /\ UNCHANGED <<OPENAI_API_KEY, file, source_code, issues, scanned,
                   enhanced_issues, stderr, remote_calls, output, call>>

\* main, line 552: read_file leaves with status 1 when the file cannot be
\* read.
ReadFile ==
    /\ pc = "main"
    /\ pc' = IF file.readable THEN "read" ELSE "exit: unreadable file"
    /\ source_code' = IF file.readable THEN file.content ELSE source_code
    /\ UNCHANGED <<OPENAI_API_KEY, file, issues, scanned, enhanced_issues,
                   stderr, remote_calls, output, call>>

\* main, line 558.
DetectCommonPatterns ==
    /\ pc = "read"
    /\ issues' = detect_common_patterns(source_code)
    /\ scanned' = issues'
    /\ pc' = "scanned"
    /\ UNCHANGED <<OPENAI_API_KEY, file, source_code, enhanced_issues, stderr,
                   remote_calls, output, call>>

\* main, line 564, under every answer of the remote service.
AnalyzeCodeWithOpenAI ==
    /\ pc = "scanned"
    /\ \E response \in Responses :
         LET first == WholeFileAnalysis(source_code, issues, response)
         IN  \E answers \in [1..NeedsCall(first.issues, 1) -> Explanations] :
               LET r == analyze_code_with_openai(OPENAI_API_KEY, source_code,
                                                 issues, response, answers)
               IN  /\ enhanced_issues' = r.value
                   /\ issues' = r.issues
                   /\ stderr' = r.stderr
                   /\ remote_calls' = r.calls
    /\ pc' = "enriched"
    /\ UNCHANGED <<OPENAI_API_KEY, file, source_code, scanned, output, call>>

\* main, lines 567-579: an exception of format_review_results ends the
\* program; the review goes to the file of --output, or to the console when
\* there is none or it cannot be written.
FormatAndOutput ==
    /\ pc = "enriched"
    /\ LET review_results == format_review_results(enhanced_issues)
       IN  IF review_results.raised
           THEN /\ pc' = "crashed"
                /\ output' = output
           ELSE /\ pc' = "done"
                /\ \E channel \in {"console", "file"} :
                     output' = [channel |-> channel,
                                text |-> review_results.value]
    /\ UNCHANGED <<OPENAI_API_KEY, file, source_code, issues, scanned,
                   enhanced_issues, stderr, remote_calls, call>>

Next ==
    \/ ImportModule
    \/ ReadFile
    \/ DetectCommonPatterns
    \/ AnalyzeCodeWithOpenAI
    \/ FormatAndOutput

Spec == Init /\ [][Next]_vars

-----------------------------------------------------------------------------
(* detect_common_patterns called alone, on every text of at most MaxLen    *)
(* tokens.                                                                 *)

ScanTexts == SeqUpTo(Tokens \cup {NL}, MaxLen)

InitScan ==
    /\ pc = "read"
    /\ OPENAI_API_KEY = "sk-key"
    /\ file = NoFile
    /\ source_code \in ScanTexts
    /\ issues = <<>>
    /\ scanned = <<>>
    /\ enhanced_issues = <<>>
    /\ stderr = <<>>
    /\ remote_calls = 0
    /\ output = NoOutput
    /\ call = NoCall

NextScan == DetectCommonPatterns

SpecScan == InitScan /\ [][NextScan]_vars

-----------------------------------------------------------------------------
(* extract_code_snippet called alone. *)

SnippetTexts == SeqUpTo({"new", "y", NL}, MaxSnippetLen)

\* The values given as line_num: numbers inside and outside the text, and
\* JSON values that are no number.
LineNums ==
    {JInt(k) : k \in (0 - 1)..(MaxSnippetLen + 2)} \cup {JStr("3-5"), JNull}

InitSnippet ==
    /\ pc = "call"
    /\ OPENAI_API_KEY = "sk-key"
    /\ file = NoFile
    /\ source_code \in SnippetTexts
    /\ issues = <<>>
    /\ scanned = <<>>
    /\ enhanced_issues = <<>>
    /\ stderr = <<>>
    /\ remote_calls = 0
    /\ output = NoOutput
    /\ call = NoCall

ExtractCodeSnippetCall ==
    /\ pc = "call"
    /\ \E line_num \in LineNums, context_lines \in 0..MaxContext :
         call' = [fn |-> "extract_code_snippet",
                  line_num |-> line_num,
                  context_lines |-> context_lines,
                  result |-> extract_code_snippet(source_code, line_num,
                                                  context_lines)]
    /\ pc' = "returned"
    /\ UNCHANGED <<OPENAI_API_KEY, file, source_code, issues, scanned,
                   enhanced_issues, stderr, remote_calls, output>>

NextSnippet == ExtractCodeSnippetCall

SpecSnippet == InitSnippet /\ [][NextSnippet]_vars

-----------------------------------------------------------------------------
(* get_built_in_explanation called alone. *)

\* The ten issue types and a string that is none of them.
GivenIssueTypes == IssueTypes \cup {"Security"}

\* Every message of the pattern table, the default message of an issue of
\* the whole-file analysis, and a message of the remote service's own.
GivenMessages ==
    {patterns[r].message : r \in 1..Len(patterns)}
        \cup {"Issue detected", "Unchecked input"}

InitExplain ==
    /\ pc = "call"
    /\ OPENAI_API_KEY = "sk-key"
    /\ file = NoFile
    /\ source_code = <<>>
    /\ issues = <<>>
    /\ scanned = <<>>
    /\ enhanced_issues = <<>>
    /\ stderr = <<>>
    /\ remote_calls = 0
    /\ output = NoOutput
    /\ call = NoCall

GetBuiltInExplanationCall ==
    /\ pc = "call"
    /\ \E issue_type \in GivenIssueTypes, message \in GivenMessages :
         call' = [fn |-> "get_built_in_explanation",
                  issue_type |-> issue_type,
                  message |-> message,
                  result |-> get_built_in_explanation(issue_type, message)]
    /\ pc' = "returned"
    /\ UNCHANGED <<OPENAI_API_KEY, file, source_code, issues, scanned,
                   enhanced_issues, stderr, remote_calls, output>>

NextExplain == GetBuiltInExplanationCall

SpecExplain == InitExplain /\ [][NextExplain]_vars

-----------------------------------------------------------------------------
(* detect_common_patterns called again on the same text, after earlier     *)
(* scans and enrichments of their results.                                 *)

RescanTexts == SeqUpTo({"new", "y", NL}, MaxPipeLen)

InitRescan ==
    /\ pc = "read"
    /\ OPENAI_API_KEY = "sk-key"
    /\ file \in {[readable |-> TRUE, content |-> T] : T \in RescanTexts}
    /\ source_code = file.content
    /\ issues = <<>>
    /\ scanned = <<>>
    /\ enhanced_issues = <<>>
    /\ stderr = <<>>
    /\ remote_calls = 0
    /\ output = NoOutput
    /\ call = NoCall

\* A later call of detect_common_patterns(source_code): `issues` names the
\* list it returns, `scanned` stays what the first scan returned, and the
\* list of the earlier scan, extended by the enrichment or not, is left to
\* `enhanced_issues`.  The scans before an enrichment are any number, and so
\* are the scans after it; the enrichment runs once, on the list of the
\* latest scan.
Rescan ==
    /\ pc \in {"scanned", "enriched", "rescanned"}
    /\ issues' = detect_common_patterns(source_code)
    /\ call' = [fn |-> "detect_common_patterns",
                source_code |-> source_code,
                result |-> issues']
    /\ pc' = IF pc = "scanned" THEN "scanned" ELSE "rescanned"
    /\ UNCHANGED <<OPENAI_API_KEY, file, source_code, scanned,
                   enhanced_issues, stderr, remote_calls, output>>

NextRescan ==
    \/ DetectCommonPatterns
    \/ AnalyzeCodeWithOpenAI
    \/ Rescan

SpecRescan == InitRescan /\ [][NextRescan]_vars

-----------------------------------------------------------------------------
(* analyze_code_with_openai called alone, on lists of issues with and      *)
(* without the keys "explanation" and "recommendation".                    *)

\* The text the issues given are about.
EnrichText == <<"new", NL, "char buf[10];">>

\* del issue[k] for every k of `keys`.
Without(issue, keys) == [k \in DOMAIN issue \ keys |-> issue[k]]

\* The issues given: the issues of the text's scan, each as it is, without
\* its explanation, without its recommendation and without both.
GivenIssues ==
    LET found == detect_common_patterns(EnrichText)
    IN  {Without(found[i], keys) :
            i \in 1..Len(found),
            keys \in SUBSET {"explanation", "recommendation"}}

\* The answers of the whole-file call: a call that raises, no issue, an
\* issue, and an issue whose line makes extract_code_snippet raise.
GivenResponses ==
    {Response("raise", FALSE, FALSE, "list", <<>>),
     Response("json", TRUE, TRUE, "list", <<>>),
     Response("json", TRUE, TRUE, "list",
              <<AiItem(TRUE, AllKeys, "Memory Leak", "ERROR", "Leaked buffer",
                       JInt(1), JStr("Use std::unique_ptr"))>>),
     Response("json", TRUE, TRUE, "list",
              <<AiItem(TRUE, AllKeys, "Style Violation", "INFO",
                       "Long function", JStr("3-5"),
                       JStr("Split the function"))>>)}

\* `scanned` keeps the list given, as it was before the call.
InitEnrich ==
    /\ pc = "scanned"
    /\ OPENAI_API_KEY = "sk-key"
    /\ file = [readable |-> TRUE, content |-> EnrichText]
    /\ source_code = EnrichText
    /\ issues \in SeqUpTo(GivenIssues, MaxGivenIssues)
    /\ scanned = issues
    /\ enhanced_issues = <<>>
    /\ stderr = <<>>
    /\ remote_calls = 0
    /\ output = NoOutput
    /\ call = NoCall

\* analyze_code_with_openai(source_code, issues), under the answers
\* GivenResponses of the whole-file call and every answer of each per-issue
\* call.
AnalyzeGivenIssues ==
    /\ pc = "scanned"
    /\ \E response \in GivenResponses :
         LET first == WholeFileAnalysis(source_code, issues, response)
         IN  \E answers \in [1..NeedsCall(first.issues, 1) -> Explanations] :
               LET r == analyze_code_with_openai(OPENAI_API_KEY, source_code,
                                                 issues, response, answers)
               IN  /\ enhanced_issues' = r.value
                   /\ issues' = r.issues
                   /\ stderr' = r.stderr
                   /\ remote_calls' = r.calls
    /\ pc' = "enriched"
    /\ UNCHANGED <<OPENAI_API_KEY, file, source_code, scanned, output, call>>

NextEnrich == AnalyzeGivenIssues

SpecEnrich == InitEnrich /\ [][NextEnrich]_vars

-----------------------------------------------------------------------------
(* Properties. *)

\* The lines of the text scanned.
Lines == Split(source_code)

\* The rules whose pattern matches line l of `lines`.
MatchingRules(lines, l) ==
    {r \in 1..Len(patterns) : re_search(patterns[r].pattern, lines[l])}

\* The places of the issues of line l in the scan's result.
IssuesOfLine(l) == {i \in 1..Len(scanned) : scanned[i].line = JInt(l)}

\* The rule an issue of the scanner comes from: the messages of the pattern
\* table are pairwise different.
RuleOf(issue) == CHOOSE r \in 1..Len(patterns) : patterns[r].message = issue.message

\* The (explanation, recommendation) pair of an issue.
PairOf(issue) == <<issue.explanation, issue.recommendation>>

AsPair(entry) == <<entry.explanation, entry.recommendation>>

C3_SnippetWindow ==
    (/\ pc = "returned"
     /\ call.line_num.t = "int"
     /\ 1 <= call.line_num.n
     /\ call.line_num.n <= Len(Lines)) =>
        LET n == call.line_num.n
            c == call.context_lines
            lo == IF n - c < 1 THEN 1 ELSE n - c
            hi == IF n + c > Len(Lines) THEN Len(Lines) ELSE n + c
            snippet == call.result.value
        IN  /\ ~call.result.raised
            /\ Len(snippet) = hi - lo + 1
            /\ \A k \in 1..Len(snippet) :
                   /\ snippet[k].number = lo + k - 1
                   /\ snippet[k].text = Lines[lo + k - 1]
                   /\ snippet[k].marker = "→ " <=> snippet[k].number = n
            /\ \E k \in 1..Len(snippet) : snippet[k].number = n

\* A window cut at the first line and not at the last, the target not first
\* in it.
C3_Witness ==
    /\ pc = "returned"
    /\ call.line_num = JInt(2)
    /\ call.context_lines = 2
    /\ Len(Lines) = 5
    /\ Len(call.result.value) = 4

\* C4: the lookup returns the message's pair when the message is a key of
\* the message table, whatever the category; else the category's pair when
\* the category is a key of the category table; else the default pair.
C4_LookupPrecedence ==
    pc = "returned" =>
        LET m == call.message
            c == call.issue_type
        IN  /\ m \in DOMAIN pattern_explanations =>
                   call.result = AsPair(pattern_explanations[m])
            /\ (m \notin DOMAIN pattern_explanations /\ c \in DOMAIN explanations) =>
                   call.result = AsPair(explanations[c])
            /\ (m \notin DOMAIN pattern_explanations /\ c \notin DOMAIN explanations) =>
                   call.result = <<default_explanation, default_recommendation>>
            /\ Len(call.result) = 2

\* A message of the message table looked up under a category of the
\* category table.
C4_Witness ==
    /\ pc = "returned"
    /\ call.message = MsgDefine
    /\ call.issue_type = IssueType.MEMORY_LEAK
    /\ call.result = AsPair(pattern_explanations[MsgDefine])
    /\ call.result # AsPair(explanations[IssueType.MEMORY_LEAK])

\* The Scanner's issue i as the enrichment returned it.
Retained(i) ==
    /\ enhanced_issues[i].type = scanned[i].type
    /\ enhanced_issues[i].severity = scanned[i].severity
    /\ enhanced_issues[i].message = scanned[i].message
    /\ enhanced_issues[i].line = scanned[i].line
    /\ enhanced_issues[i].code_snippet = scanned[i].code_snippet

\* C5: whatever the remote service answers, the sequence the enrichment
\* returns starts with the Scanner's issues, in their order and with their
\* category, severity, message, line and snippet; what the enrichment adds
\* comes after them.
C5_ScannerIssuesKeptFirst ==
    pc \in {"enriched", "done", "crashed"} =>
        /\ Len(enhanced_issues) >= Len(scanned)
        /\ \A i \in 1..Len(scanned) : Retained(i)

\* An enrichment that added an issue to a scan that found some.
C5_Witness ==
    /\ pc = "enriched"
    /\ Len(scanned) >= 2
    /\ Len(enhanced_issues) > Len(scanned)

\* The whole-file analysis failed: line 415 printed its warning.
EnrichmentFailed ==
    \E i \in 1..Len(stderr) : stderr[i] = "Warning: Full code analysis failed"

\* C6: when the enrichment fails at any point, the sequence returned is the
\* Scanner's original sequence.
C6_FailureReturnsScan ==
    (pc = "enriched" /\ EnrichmentFailed) => enhanced_issues = scanned

\* The program has ended.
Ended == pc \in {"exit: no API key", "exit: unreadable file", "crashed", "done"}

\* The review printed holds the Scanner's issues.
ScanWasOutput ==
    /\ output.channel \in {"console", "file"}
    /\ Len(output.text.details) >= Len(scanned)
    /\ \A i \in 1..Len(scanned) :
         /\ output.text.details[i].printed.message = scanned[i].message
         /\ output.text.details[i].printed.line = scanned[i].line

\* C7: a run on a readable file ends with the scan's result output, the
\* enrichment being available, failing or absent (no API key set).
C7_ScanAlwaysOutput ==
    (Ended /\ file.readable) => (pc = "done" /\ ScanWasOutput)

C9_EveryTypeHasItsPair ==
    (pc = "returned" /\ call.message \notin DOMAIN pattern_explanations) =>
        /\ call.issue_type \in IssueTypes =>
               /\ call.issue_type \in DOMAIN explanations
               /\ call.result = AsPair(explanations[call.issue_type])
        /\ call.result = <<default_explanation, default_recommendation>> =>
               call.issue_type \notin IssueTypes

\* C9, amended: the category table has the eight issue types other than
\* Concurrency Issue and Other Issue as its keys; under a message that is
\* no key of the message table each of the eight gets its own pair, and
\* Concurrency Issue, Other Issue and every category outside the
\* enumeration get the default pair.
C9_EightTypesHaveTheirPair ==
    /\ DOMAIN explanations =
           IssueTypes \ {IssueType.CONCURRENCY_ISSUE, IssueType.OTHER_}
    /\ (pc = "returned" /\ call.message \notin DOMAIN pattern_explanations) =>
           IF call.issue_type \in
                  IssueTypes \ {IssueType.CONCURRENCY_ISSUE, IssueType.OTHER_}
           THEN /\ call.result = AsPair(explanations[call.issue_type])
                /\ call.result # <<default_explanation, default_recommendation>>
           ELSE call.result = <<default_explanation, default_recommendation>>

\* Concurrency Issue looked up under a message of no table.
C9_Witness ==
    /\ pc = "returned"
    /\ call.issue_type = IssueType.CONCURRENCY_ISSUE
    /\ call.message = "Unchecked input"
    /\ call.result = <<default_explanation, default_recommendation>>

HasNewIssue(l) ==
    \E i \in IssuesOfLine(l) : scanned[i].message = patterns[1].message

\* The places of the token tok in a line.
PlacesOf(line, tok) == {i \in 1..Len(line) : line[i] = tok}

\* C11 as stated: the 'new' rule gives an issue for a line exactly when the
\* line holds a `new` token and no `delete` token anywhere, before or after
\* the `new`.
C11_NewIssueIffNoDeleteOnLine ==
    pc = "scanned" =>
        LET lines == Lines
        IN  \A l \in 1..Len(lines) :
                HasNewIssue(l) <=>
                    /\ PlacesOf(lines[l], "new") # {}
                    /\ PlacesOf(lines[l], "delete") = {}

\* C11, amended: the 'new' rule gives an issue for a line exactly when the
\* line holds a `new` token with no `delete` token after it on the line; a
\* `delete` before the `new` does not prevent the issue.
C11_NewIssueIffNoDeleteAfter ==
    pc = "scanned" =>
        LET lines == Lines
        IN  \A l \in 1..Len(lines) :
                HasNewIssue(l) <=>
                    \E i \in PlacesOf(lines[l], "new") :
                        \A j \in PlacesOf(lines[l], "delete") : j < i

\* A line with `delete` before `new`, which has the issue.
C11_Witness ==
    /\ pc = "scanned"
    /\ Lines = << <<"delete", "new">> >>
    /\ HasNewIssue(1)

\* The enrichment has returned.
Enriched == pc \in {"enriched", "done", "crashed"}

\* C12 as stated: every issue of the sequence the enrichment returns, of the
\* Scanner or added by the enrichment, has an explanation and a
\* recommendation.
C12_EveryIssueHasBoth ==
    Enriched =>
        \A i \in 1..Len(enhanced_issues) :
            {"explanation", "recommendation"} \subseteq DOMAIN enhanced_issues[i]

\* C12, amended: in the sequence the enrichment returns, every issue of the
\* Scanner has an explanation and a recommendation, both texts that are not
\* empty; every issue the enrichment added has a recommendation, which is
\* the JSON value the remote service gave (a text, or null) or the default
\* text, and has no explanation.
C12_ScannerIssuesHaveBoth ==
    Enriched =>
        /\ Len(enhanced_issues) >= Len(scanned)
        /\ \A i \in 1..Len(scanned) :
               /\ {"explanation", "recommendation"}
                      \subseteq DOMAIN enhanced_issues[i]
               /\ enhanced_issues[i].explanation.t = "str"
               /\ enhanced_issues[i].explanation.s # ""
               /\ enhanced_issues[i].recommendation.t = "str"
               /\ enhanced_issues[i].recommendation.s # ""
        /\ \A i \in (Len(scanned) + 1)..Len(enhanced_issues) :
               /\ "recommendation" \in DOMAIN enhanced_issues[i]
               /\ "explanation" \notin DOMAIN enhanced_issues[i]
               /\ enhanced_issues[i].recommendation \in
                      {JNull, JStr("No specific recommendation")}
                          \cup {it.recommendation : it \in AiItems}

\* An enrichment that added, to a scan that found an issue, an issue with a
\* text as recommendation and an issue with null as recommendation.
C12_Witness ==
    /\ pc = "enriched"
    /\ Len(scanned) >= 1
    /\ \E i, j \in (Len(scanned) + 1)..Len(enhanced_issues) :
         /\ enhanced_issues[i].recommendation.t = "str"
         /\ enhanced_issues[j].recommendation = JNull

Sent == {i \in 1..Len(scanned) : "recommendation" \notin DOMAIN scanned[i]}

\* C14: the per-issue loop returns an issue given with a recommendation as
\* it was given, with or without an explanation, and makes no remote call
\* for it; the remote calls after the whole-file call are one per issue
\* given without a recommendation, and such an issue has an explanation and
\* a recommendation written to it.
C14_RecommendationMeansNoCall ==
    pc = "enriched" =>
        /\ remote_calls = 1 + Cardinality(Sent)
        /\ Len(enhanced_issues) >= Len(scanned)
        /\ \A i \in 1..Len(scanned) :
               IF i \in Sent
               THEN /\ {"explanation", "recommendation"}
                           \subseteq DOMAIN enhanced_issues[i]
                    /\ Without(enhanced_issues[i],
                               {"explanation", "recommendation"})
                           = Without(scanned[i],
                                     {"explanation", "recommendation"})
               ELSE enhanced_issues[i] = scanned[i]
        /\ \A i \in (Len(scanned) + 1)..Len(enhanced_issues) :
               /\ "recommendation" \in DOMAIN enhanced_issues[i]
               /\ "explanation" \notin DOMAIN enhanced_issues[i]

\* An issue given with a recommendation and no explanation, returned as it
\* was given, next to an issue given without a recommendation, which got the
\* remote service's explanation by the one per-issue call made.
C14_Witness ==
    /\ pc = "enriched"
    /\ remote_calls = 2
    /\ \E i, j \in 1..Len(scanned) :
         /\ "recommendation" \in DOMAIN scanned[i]
         /\ "explanation" \notin DOMAIN scanned[i]
         /\ enhanced_issues[i] = scanned[i]
         /\ j \in Sent
         /\ enhanced_issues[j].explanation = JStr("AI explanation")

\* stderr has the warning of line 462, of a per-issue call that failed.
EnhancementFailed ==
    \E i \in 1..Len(stderr) :
        stderr[i] = "Warning: Failed to enhance issue explanation"

====
